---- MODULE Spec2Model ----
(***************************************************************************)
(* Model of the SysSynBio/egfr repository.                                 *)
(*                                                                         *)
(*  - src/egfr/chen_modules.py: the receptor-layer rules declared by       *)
(*    rec_monomers / rec_initial / rec_events and the GAP rule declared    *)
(*    by mapk_monomers / mapk_initial / mapk_events.  A receptor complex   *)
(*    is a tuple of one erbb (bd=None) or two erbb joined at their bd      *)
(*    sites; each erbb carries its ty, bl, b, st and loc sites.  Spec is   *)
(*    the population semantics of the rules (a multiset of complexes plus  *)
(*    free EGF, HRG, ATP, DEP, GAP, ADP); SpecNet is the expansion of the  *)
(*    rules into the set of species they generate from the seed species.   *)
(*  - src/chen_sorger_2009_egfr_simplified/calibration_files/              *)
(*    calibration_A431_highEGF.py: the calibration script.  SpecCal is     *)
(*    the script's statement sequence; SpecNum applies its functions       *)
(*    normalize, likelihood and prior to bounded inputs, computed in       *)
(*    exact extended rational arithmetic (NaN and +-Inf as in IEEE 754).   *)
(***************************************************************************)
EXTENDS Integers, Sequences, FiniteSets, TLC

VARIABLES
    cx,         \* population: bag (complex -> copies) of receptor complexes
    free,       \* population: free EGF, HRG, ATP, DEP, GAP, ADP copies
    generated,  \* network expansion: species found so far
    frontier,   \* network expansion: species whose reactions are still to be expanded
    pc,         \* calibration script: next statement
    iter,       \* calibration script: mcmc.iter
    printed,    \* calibration script: [n, last, prev, now] diagnostics lines printed by step
    phases,     \* calibration script: statements completed so far, in order
    files,      \* calibration script: output files written
    ydata_norm, \* calibration script global: the experimental data, scaled to 0-1
    exp_var,    \* calibration script global: the per-point deviation of the data
    prior_mean, \* calibration script global: log10 of the nominal parameter values
    call        \* function-level: [fn, arg, ret] of the last call of a script function

recVars == <<cx, free>>
netVars == <<generated, frontier>>
calVars == <<pc, iter, printed, phases, files>>
numVars == <<ydata_norm, exp_var, prior_mean, call>>
vars == <<cx, free, generated, frontier, pc, iter, printed, phases, files,
          ydata_norm, exp_var, prior_mean, call>>

----------------------------------------------------------------------------
(* Bounds of the model *)

\* receptor molecules in the population
NRec == 3
\* copies of each of EGF, HRG, ATP, DEP, GAP in the population
PoolCopies == 3
\* time points of a trajectory (tspan)
NT == 2
\* largest observable value in a simulated trajectory
MaxVal == 2
\* fitted parameters (opts.estimate_params)
NParams == 2
\* positions are drawn up to prior_var + PosMargin from prior_mean, per coordinate
PosMargin == 1

----------------------------------------------------------------------------
(* chen_modules.py: monomers and sites *)

ErbbTypes == {1, 2, 3, 4}
Ligands == {"EGF", "HRG"}
SmallMolecules == {"EGF", "HRG", "ATP", "DEP", "ADP", "GAP"}

\* Monomer('erbb', ['bl','bd','b','ty','st','loc'], ...): one erbb molecule.
\* bd is the position in a complex: alone (bd=None) or one of two (bd bound).
\* Site b holds the molecule bound there: ATP, DEP, or GAP (Monomer('GAP', ['b'])).
Erbb == [ty : ErbbTypes, bl : {"None", "EGF", "HRG"}, b : {"None", "ATP", "DEP", "GAP"},
         st : {"U", "P"}, loc : {"C", "E"}]

\* Initial(erbb(bl=None, bd=None, b=None, ty=t, st='U', loc='C'), erbbt_0)
InitialErbb(t) == <<[ty |-> t, bl |-> "None", b |-> "None", st |-> "U", loc |-> "C"]>>

IsMonomer(c) == Len(c) = 1
IsDimer(c) == Len(c) = 2

BlIdx(x) == CASE x = "None" -> 0 [] x = "EGF" -> 1 [] x = "HRG" -> 2
BIdx(x) == CASE x = "None" -> 0 [] x = "ATP" -> 1 [] x = "DEP" -> 2 [] x = "GAP" -> 3
StIdx(x) == IF x = "U" THEN 0 ELSE 1
LocIdx(x) == IF x = "C" THEN 0 ELSE 1

\* a total order on erbb molecules, used only to write a dimer in one way
Code(h) == (((h.ty * 3 + BlIdx(h.bl)) * 4 + BIdx(h.b)) * 2 + StIdx(h.st)) * 2 + LocIdx(h.loc)

Canon(c) == IF Len(c) = 2 /\ Code(c[1]) > Code(c[2]) THEN <<c[2], c[1]>> ELSE c

\* complex c with its k-th erbb replaced by h
With(c, k, h) == Canon([c EXCEPT ![k] = h])

Other(k) == 3 - k

(* bags of complexes *)
BagAdd(B, e) ==
    IF e \in DOMAIN B THEN [B EXCEPT ![e] = @ + 1]
    ELSE [x \in DOMAIN B \cup {e} |-> IF x = e THEN 1 ELSE B[x]]

BagDel(B, e) ==
    IF B[e] > 1 THEN [B EXCEPT ![e] = @ - 1]
    ELSE [x \in DOMAIN B \ {e} |-> B[x]]

----------------------------------------------------------------------------
(* chen_modules.py: rec_events, the rules as rewrites of one complex *)

\* bind_table rows erbb(ty=1|3|4, b=None, st='U', loc='C') x columns EGF, HRG
LigandTable(t, lig) ==
    \/ t = 1 /\ lig = "EGF"
    \/ t = 3 /\ lig = "HRG"
    \/ t = 4 /\ lig = "HRG"

\* the pattern erbb(b=None, st='U', loc='C') shared by the rows of the first two tables
RowPattern(h) == h.b = "None" /\ h.st = "U" /\ h.loc = "C"

\* bind(erbb(...), 'bl', lig, 'b'): forward direction
BindLigandProducts(c, lig) ==
    { With(c, k, [c[k] EXCEPT !.bl = lig]) :
        k \in { k \in DOMAIN c : /\ LigandTable(c[k].ty, lig)
                                 /\ RowPattern(c[k])
                                 /\ c[k].bl = "None" } }

\* bind(erbb(...), 'bl', lig, 'b'): reverse direction
UnbindLigandProducts(c, lig) ==
    { With(c, k, [c[k] EXCEPT !.bl = "None"]) :
        k \in { k \in DOMAIN c : /\ LigandTable(c[k].ty, lig)
                                 /\ RowPattern(c[k])
                                 /\ c[k].bl = lig } }

\* erbb dimerization bind_table: row type r, column type col
DimerTable(r, col) ==
    \/ r = 1 /\ col = 1
    \/ r = 2 /\ col \in {1, 2}
    \/ r = 3 /\ col \in {1, 2}
    \/ r = 4 /\ col \in {1, 2}

\* bind(row, 'bd', column, 'bd'): forward direction, on two complexes
DimerizeProducts(a, b) ==
    IF /\ IsMonomer(a) /\ IsMonomer(b)
       /\ RowPattern(a[1]) /\ RowPattern(b[1])
       /\ (DimerTable(a[1].ty, b[1].ty) \/ DimerTable(b[1].ty, a[1].ty))
    THEN { Canon(<<a[1], b[1]>>) }
    ELSE {}

\* bind(row, 'bd', column, 'bd'): reverse direction; the result is a pair of monomers
DissociateProducts(c) ==
    IF /\ IsDimer(c)
       /\ RowPattern(c[1]) /\ RowPattern(c[2])
       /\ (DimerTable(c[1].ty, c[2].ty) \/ DimerTable(c[2].ty, c[1].ty))
    THEN { << <<c[1]>>, <<c[2]>> >> }
    ELSE {}

\* mutant of AtpRow: the rows written without bd=ANY, so that ATP binds monomers too
AtpRowAnyErbb(c, k) ==
    /\ c[k].ty \in {1, 2, 4}
    /\ c[k].st = "U"
    /\ c[k].loc = "C"

\* ATP bind_table rows: erbb(ty=1|2|4, bd=ANY, st='U', loc='C')
AtpRow(c, k) ==
    /\ c[k].ty \in {1, 2, 4}
    /\ IsDimer(c)
    /\ c[k].st = "U"
    /\ c[k].loc = "C"

BindAtpProducts(c) ==
    { With(c, k, [c[k] EXCEPT !.b = "ATP"]) :
        k \in { k \in DOMAIN c : AtpRow(c, k) /\ c[k].b = "None" } }

UnbindAtpProducts(c) ==
    { With(c, k, [c[k] EXCEPT !.b = "None"]) :
        k \in { k \in DOMAIN c : AtpRow(c, k) /\ c[k].b = "ATP" } }

\* the types the cross_phospho loops range over
KinaseTypes == {1, 2, 4}
PartnerTypes == {1, 2, 3, 4}

\* reactant pattern of Rule cross_phospho_i_j with the kinase at position k:
\* ATP(b=1) % erbb(ty=i, b=1, bd=2, bl=ANY) % erbb(ty=j, bd=2, st='U')
CrossPhosphoMatch(c, k, i, j) ==
    /\ IsDimer(c)
    /\ i \in KinaseTypes /\ j \in PartnerTypes
    /\ c[k].ty = i /\ c[k].b = "ATP" /\ c[k].bl # "None"
    /\ c[Other(k)].ty = j /\ c[Other(k)].st = "U"

CrossPhosphoEnabled(c, i, j) == \E k \in DOMAIN c : CrossPhosphoMatch(c, k, i, j)

\* product of cross_phospho_i_j: ADP() + erbb(ty=i, b=None, ...) % erbb(ty=j, st='P')
CrossPhosphoProducts(c) ==
    { Canon([c EXCEPT ![k[1]] = [@ EXCEPT !.b = "None"],
                      ![Other(k[1])] = [@ EXCEPT !.st = "P"]]) :
        k \in { k \in (1..2) \X (KinaseTypes \X PartnerTypes) :
                  IsDimer(c) /\ CrossPhosphoMatch(c, k[1], k[2][1], k[2][2]) } }

\* Rule dephospho_i_4, forward: erbb(st='P', b=None, ty=i) + DEP(b=None)
BindDepProducts(c) ==
    { With(c, k, [c[k] EXCEPT !.b = "DEP"]) :
        k \in { k \in DOMAIN c : c[k].st = "P" /\ c[k].b = "None" } }

\* Rule dephospho_i_4, reverse: erbb(st='P', b=1, ty=i) % DEP(b=1)
UnbindDepProducts(c) ==
    { With(c, k, [c[k] EXCEPT !.b = "None"]) :
        k \in { k \in DOMAIN c : c[k].st = "P" /\ c[k].b = "DEP" } }

\* Rule dephosphoC_i_4: erbb(st='P', b=1) % DEP(b=1) >> erbb(st='U', b=None) + DEP(b=None)
DephosphoProducts(c) ==
    { With(c, k, [c[k] EXCEPT !.b = "None", !.st = "U"]) :
        k \in { k \in DOMAIN c : c[k].st = "P" /\ c[k].b = "DEP" } }

\* Rule GAP_dimerization, reactant side:
\* MatchOnce(erbb(bd=1, b=None, st='P') % erbb(bd=1, b=None, st='P')) + GAP(b=None)
GapMatch(c) ==
    /\ IsDimer(c)
    /\ c[1].st = "P" /\ c[1].b = "None"
    /\ c[2].st = "P" /\ c[2].b = "None"

\* Rule GAP_dimerization, forward: GAP joins site b of one erbb of the pair.
\* The pattern is symmetric, so either erbb of the dimer can be the one it
\* binds; MatchOnce only keeps one match per dimer from being counted twice.
BindGapProducts(c) ==
    { With(c, k, [c[k] EXCEPT !.b = "GAP"]) : k \in { k \in DOMAIN c : GapMatch(c) } }

\* Rule GAP_dimerization, reverse:
\* MatchOnce(erbb(bd=1, b=2, st='P') % erbb(bd=1, b=None, st='P') % GAP(b=2))
UnbindGapProducts(c) ==
    { With(c, k, [c[k] EXCEPT !.b = "None"]) :
        k \in { k \in DOMAIN c : /\ IsDimer(c)
                                 /\ c[k].st = "P" /\ c[k].b = "GAP"
                                 /\ c[Other(k)].st = "P" /\ c[Other(k)].b = "None" } }

\* Rule rec_intern: erbb(bd=1, loc='C') % erbb(bd=1, loc='C') <> both loc='E'
InternMatch(c, from) == IsDimer(c) /\ c[1].loc = from /\ c[2].loc = from

\* mutant of InternProducts: the rule written on one erbb(bd=ANY) instead of the pair
InternProductsOneErbb(c, from, to) ==
    { With(c, k, [c[k] EXCEPT !.loc = to]) :
        k \in { k \in DOMAIN c : IsDimer(c) /\ c[k].loc = from } }

InternProducts(c, from, to) ==
    IF InternMatch(c, from)
    THEN { Canon(<<[c[1] EXCEPT !.loc = to], [c[2] EXCEPT !.loc = to]>>) }
    ELSE {}

\* degrade(erbb(bd=1, loc='E') % erbb(bd=1, loc='E'), kdeg): the species is removed whole
DegradeMatch(c) == IsDimer(c) /\ c[1].loc = "E" /\ c[2].loc = "E"

----------------------------------------------------------------------------
(* Population semantics of rec_initial + rec_events and of                 *)
(* mapk_initial + mapk_events                                              *)

Idle == "idle"

NetIdle == generated = {} /\ frontier = {}
CalIdle == pc = Idle /\ iter = 0 /\ printed = <<>> /\ phases = <<>> /\ files = {}
GlobalsIdle == ydata_norm = <<>> /\ exp_var = <<>> /\ prior_mean = <<>>
NumIdle == call = <<>>
RecIdle == cx = <<>> /\ free = <<>>

RECURSIVE BagOfSeq(_)
BagOfSeq(s) == IF s = <<>> THEN <<>> ELSE BagAdd(BagOfSeq(Tail(s)), InitialErbb(Head(s)))

\* NRec receptors drawn from the four seed species of rec_initial; the free
\* molecules of rec_initial (EGF, HRG, ATP, DEP) and of mapk_initial (GAP)
InitRec ==
    /\ \E ts \in [1..NRec -> ErbbTypes] :
         /\ \A k \in 1..(NRec - 1) : ts[k] <= ts[k + 1]
         /\ cx = BagOfSeq(ts)
    /\ free = [m \in SmallMolecules |-> IF m = "ADP" THEN 0 ELSE PoolCopies]
    /\ NetIdle /\ CalIdle /\ GlobalsIdle /\ NumIdle

Replace(B, c, d) == BagAdd(BagDel(B, c), d)

BindLigand ==
    \E lig \in Ligands : \E c \in DOMAIN cx : \E d \in BindLigandProducts(c, lig) :
        /\ free[lig] > 0
        /\ cx' = Replace(cx, c, d)
        /\ free' = [free EXCEPT ![lig] = @ - 1]
        /\ UNCHANGED <<netVars, calVars, numVars>>

UnbindLigand ==
    \E lig \in Ligands : \E c \in DOMAIN cx : \E d \in UnbindLigandProducts(c, lig) :
        /\ cx' = Replace(cx, c, d)
        /\ free' = [free EXCEPT ![lig] = @ + 1]
        /\ UNCHANGED <<netVars, calVars, numVars>>

Dimerize ==
    \E a \in DOMAIN cx : \E b \in DOMAIN cx : \E d \in DimerizeProducts(a, b) :
        /\ a = b => cx[a] >= 2
        /\ cx' = BagAdd(BagDel(BagDel(cx, a), b), d)
        /\ UNCHANGED <<free, netVars, calVars, numVars>>

Dissociate ==
    \E c \in DOMAIN cx : \E p \in DissociateProducts(c) :
        /\ cx' = BagAdd(BagAdd(BagDel(cx, c), p[1]), p[2])
        /\ UNCHANGED <<free, netVars, calVars, numVars>>

BindAtp ==
    \E c \in DOMAIN cx : \E d \in BindAtpProducts(c) :
        /\ free["ATP"] > 0
        /\ cx' = Replace(cx, c, d)
        /\ free' = [free EXCEPT !["ATP"] = @ - 1]
        /\ UNCHANGED <<netVars, calVars, numVars>>

UnbindAtp ==
    \E c \in DOMAIN cx : \E d \in UnbindAtpProducts(c) :
        /\ cx' = Replace(cx, c, d)
        /\ free' = [free EXCEPT !["ATP"] = @ + 1]
        /\ UNCHANGED <<netVars, calVars, numVars>>

CrossPhospho ==
    \E c \in DOMAIN cx : \E d \in CrossPhosphoProducts(c) :
        /\ cx' = Replace(cx, c, d)
        /\ free' = [free EXCEPT !["ADP"] = @ + 1]
        /\ UNCHANGED <<netVars, calVars, numVars>>

BindDep ==
    \E c \in DOMAIN cx : \E d \in BindDepProducts(c) :
        /\ free["DEP"] > 0
        /\ cx' = Replace(cx, c, d)
        /\ free' = [free EXCEPT !["DEP"] = @ - 1]
        /\ UNCHANGED <<netVars, calVars, numVars>>

UnbindDep ==
    \E c \in DOMAIN cx : \E d \in UnbindDepProducts(c) :
        /\ cx' = Replace(cx, c, d)
        /\ free' = [free EXCEPT !["DEP"] = @ + 1]
        /\ UNCHANGED <<netVars, calVars, numVars>>

Dephospho ==
    \E c \in DOMAIN cx : \E d \in DephosphoProducts(c) :
        /\ cx' = Replace(cx, c, d)
        /\ free' = [free EXCEPT !["DEP"] = @ + 1]
        /\ UNCHANGED <<netVars, calVars, numVars>>

BindGap ==
    \E c \in DOMAIN cx : \E d \in BindGapProducts(c) :
        /\ free["GAP"] > 0
        /\ cx' = Replace(cx, c, d)
        /\ free' = [free EXCEPT !["GAP"] = @ - 1]
        /\ UNCHANGED <<netVars, calVars, numVars>>

UnbindGap ==
    \E c \in DOMAIN cx : \E d \in UnbindGapProducts(c) :
        /\ cx' = Replace(cx, c, d)
        /\ free' = [free EXCEPT !["GAP"] = @ + 1]
        /\ UNCHANGED <<netVars, calVars, numVars>>

Internalize ==
    \E c \in DOMAIN cx : \E d \in InternProducts(c, "C", "E") :
        /\ cx' = Replace(cx, c, d)
        /\ UNCHANGED <<free, netVars, calVars, numVars>>

Recycle ==
    \E c \in DOMAIN cx : \E d \in InternProducts(c, "E", "C") :
        /\ cx' = Replace(cx, c, d)
        /\ UNCHANGED <<free, netVars, calVars, numVars>>

Degrade ==
    \E c \in DOMAIN cx :
        /\ DegradeMatch(c)
        /\ cx' = BagDel(cx, c)
        /\ UNCHANGED <<free, netVars, calVars, numVars>>

Next ==
    \/ BindLigand \/ UnbindLigand
    \/ Dimerize \/ Dissociate
    \/ BindAtp \/ UnbindAtp
    \/ CrossPhospho
    \/ BindDep \/ UnbindDep \/ Dephospho
    \/ BindGap \/ UnbindGap
    \/ Internalize \/ Recycle
    \/ Degrade

Spec == InitRec /\ [][Next]_vars

----------------------------------------------------------------------------
(* Expansion of rec_initial + rec_events and mapk_initial + mapk_events     *)
(* into the species the rules generate                                     *)

\* every complex one rule application makes from complex c alone (with free
\* EGF, HRG, ATP, DEP, GAP, which are seed species of rec_initial and
\* mapk_initial)
UniProducts(c) ==
    UNION { BindLigandProducts(c, lig) \cup UnbindLigandProducts(c, lig) : lig \in Ligands }
    \cup UNION { {p[1], p[2]} : p \in DissociateProducts(c) }
    \cup BindAtpProducts(c) \cup UnbindAtpProducts(c)
    \cup CrossPhosphoProducts(c)
    \cup BindDepProducts(c) \cup UnbindDepProducts(c) \cup DephosphoProducts(c)
    \cup BindGapProducts(c) \cup UnbindGapProducts(c)
    \cup InternProducts(c, "C", "E") \cup InternProducts(c, "E", "C")

\* the erbb seed species of rec_initial
SeedSpecies == { InitialErbb(t) : t \in ErbbTypes }

InitNet ==
    /\ generated = SeedSpecies
    /\ frontier = SeedSpecies
    /\ RecIdle /\ CalIdle /\ GlobalsIdle /\ NumIdle

\* one species leaves the frontier; every product of a rule applied to it,
\* alone or with a species found so far, joins the network
Expand ==
    /\ frontier # {}
    /\ LET s == CHOOSE s \in frontier : TRUE
           new == (UniProducts(s) \cup UNION { DimerizeProducts(s, t) : t \in generated })
                  \ generated
       IN /\ generated' = generated \cup new
          /\ frontier' = (frontier \ {s}) \cup new
    /\ UNCHANGED <<recVars, calVars, numVars>>

NextNet == Expand

SpecNet == InitNet /\ [][NextNet]_vars

ExpansionDone == generated # {} /\ frontier = {}

----------------------------------------------------------------------------
(* Numbers: exact rationals [n, d] with d > 0, extended with the IEEE 754     *)
(* results of division by zero: NaN = 0/0, +Inf = 1/0, -Inf = -1/0.           *)
(* Rounding is not modelled.                                                  *)

Abs(x) == IF x < 0 THEN -x ELSE x

RECURSIVE GCD(_, _)
GCD(a, b) == IF b = 0 THEN a ELSE GCD(b, a % b)

Rat(n, d) ==
    LET g == GCD(Abs(n), Abs(d))
        sg == IF d < 0 THEN -1 ELSE 1
    IN [n |-> (sg * n) \div g, d |-> (sg * d) \div g]

NaN == [n |-> 0, d |-> 0]
Inf(sg) == [n |-> sg, d |-> 0]
FromInt(i) == [n |-> i, d |-> 1]
Zero == FromInt(0)
One == FromInt(1)

IsNaN(x) == x.d = 0 /\ x.n = 0
IsInf(x) == x.d = 0 /\ x.n # 0
IsFinite(x) == x.d > 0
Sign(x) == IF x.n > 0 THEN 1 ELSE IF x.n < 0 THEN -1 ELSE 0

RNeg(x) == [n |-> -x.n, d |-> x.d]

RAdd(x, y) ==
    IF IsNaN(x) \/ IsNaN(y) THEN NaN
    ELSE IF IsInf(x) /\ IsInf(y) THEN (IF x.n = y.n THEN x ELSE NaN)
    ELSE IF IsInf(x) THEN x
    ELSE IF IsInf(y) THEN y
    ELSE Rat(x.n * y.d + y.n * x.d, x.d * y.d)

RSub(x, y) == RAdd(x, RNeg(y))

RMul(x, y) ==
    IF IsNaN(x) \/ IsNaN(y) THEN NaN
    ELSE IF IsInf(x) \/ IsInf(y)
         THEN (IF Sign(x) * Sign(y) = 0 THEN NaN ELSE Inf(Sign(x) * Sign(y)))
    ELSE Rat(x.n * y.n, x.d * y.d)

RDiv(x, y) ==
    IF IsNaN(x) \/ IsNaN(y) THEN NaN
    ELSE IF IsInf(x) /\ IsInf(y) THEN NaN
    ELSE IF IsInf(y) THEN Zero
    ELSE IF IsInf(x) THEN Inf(IF Sign(y) < 0 THEN -Sign(x) ELSE Sign(x))
    ELSE IF y.n = 0 THEN (IF x.n = 0 THEN NaN ELSE Inf(Sign(x)))
    ELSE Rat(x.n * y.d, x.d * y.n)

\* x <= y; false when either is NaN
RLe(x, y) ==
    IF IsNaN(x) \/ IsNaN(y) THEN FALSE
    ELSE IF IsFinite(x) /\ IsFinite(y) THEN x.n * y.d <= y.n * x.d
    ELSE x = y \/ x = Inf(-1) \/ y = Inf(1)

\* numpy.sum of a sequence, and of a matrix (a sequence of rows)
RECURSIVE SumSeq(_)
SumSeq(xs) == IF xs = <<>> THEN Zero ELSE RAdd(Head(xs), SumSeq(Tail(xs)))

SumMatrix(m) == SumSeq([t \in DOMAIN m |-> SumSeq(m[t])])

----------------------------------------------------------------------------
(* calibration_A431_highEGF.py: normalize, extract_records, likelihood, prior *)

\* obs_names = ['obsAKTPP', 'obsErbB1_ErbB_P_CE', 'obsERKPP']
obs_names == <<"obsAKTPP", "obsErbB1_ErbB_P_CE", "obsERKPP">>

\* prior_var = 6.0
prior_var == 6

Column(m, o) == { m[t][o] : t \in DOMAIN m }

\* trajectories.min(0), trajectories.max(0): per column, over the rows
ColMin(m, o) == CHOOSE v \in Column(m, o) : \A w \in Column(m, o) : RLe(v, w)
ColMax(m, o) == CHOOSE v \in Column(m, o) : \A w \in Column(m, o) : RLe(w, v)

\* def normalize(trajectories):
\*     return ((trajectories - ymin) / (ymax - ymin))
normalize(trajectories) ==
    [t \in DOMAIN trajectories |->
        [o \in DOMAIN trajectories[t] |->
            RDiv(RSub(trajectories[t][o], ColMin(trajectories, o)),
                 RSub(ColMax(trajectories, o), ColMin(trajectories, o)))]]

\* def extract_records(recarray, names):
\*     return numpy.vstack([recarray[name] for name in names]).T
extract_records(recarray, names) ==
    [t \in 1..NT |-> [o \in DOMAIN names |-> recarray[names[o]][t]]]

\* def likelihood(mcmc, position), given ysim = mcmc.simulate(position, observables=True):
\*     return numpy.sum((ydata_norm - ysim_norm) ** 2 / (2 * exp_var ** 2))
likelihood(ysim) ==
    LET ysim_array == extract_records(ysim, obs_names)
        ysim_norm == normalize(ysim_array)
        diff(t, o) == RSub(ydata_norm[t][o], ysim_norm[t][o])
    IN SumMatrix([t \in DOMAIN ysim_norm |->
                    [o \in DOMAIN ysim_norm[t] |->
                        RDiv(RMul(diff(t, o), diff(t, o)),
                             RMul(FromInt(2), RMul(exp_var[t][o], exp_var[t][o])))]])

\* def prior(mcmc, position):
\*     return numpy.sum((position - prior_mean) ** 2 / ( 2 * prior_var))
prior(position) ==
    SumSeq([k \in DOMAIN position |->
              RDiv(RMul(RSub(position[k], prior_mean[k]), RSub(position[k], prior_mean[k])),
                   RMul(FromInt(2), FromInt(prior_var)))])

----------------------------------------------------------------------------
(* The script's functions applied to bounded inputs *)

\* simulated observables: one time series per observable, values 0..MaxVal
SimRecords == [{obs_names[o] : o \in DOMAIN obs_names} -> [1..NT -> {FromInt(v) : v \in 0..MaxVal}]]

\* data already scaled to 0-1: every observable follows one 0/1 time profile
YDataSet == { [t \in 1..NT |-> [o \in DOMAIN obs_names |-> FromInt(prof[t])]] :
                prof \in [1..NT -> {0, 1}] }

\* deviations: non-zero, one value for the whole array
ExpVarSet == { [t \in 1..NT |-> [o \in DOMAIN obs_names |-> FromInt(sd)]] : sd \in {1, 2} }

\* log10 of the nominal rates: all KR = 1e-3, or all KC = 1
PriorMeanSet == { [k \in 1..NParams |-> FromInt(m)] : m \in {-3, 0} }

\* positions around prior_mean, a whole number of orders of magnitude away
Positions(mean) ==
    { [k \in 1..NParams |-> RAdd(mean[k], FromInt(dl[k]))] :
        dl \in [1..NParams -> (-(prior_var + PosMargin))..(prior_var + PosMargin)] }

NoCall == [fn |-> "none", arg |-> <<>>, ret |-> <<>>]

InitNum ==
    /\ ydata_norm \in YDataSet
    /\ exp_var \in ExpVarSet
    /\ prior_mean \in PriorMeanSet
    /\ call = NoCall
    /\ RecIdle /\ NetIdle /\ CalIdle

CallNormalize ==
    /\ call = NoCall
    /\ \E ysim \in SimRecords :
         call' = [fn |-> "normalize", arg |-> extract_records(ysim, obs_names),
                  ret |-> normalize(extract_records(ysim, obs_names))]
    /\ UNCHANGED <<ydata_norm, exp_var, prior_mean, recVars, netVars, calVars>>

CallLikelihood ==
    /\ call = NoCall
    /\ \E ysim \in SimRecords :
         call' = [fn |-> "likelihood", arg |-> ysim, ret |-> likelihood(ysim)]
    /\ UNCHANGED <<ydata_norm, exp_var, prior_mean, recVars, netVars, calVars>>

CallPrior ==
    /\ call = NoCall
    /\ \E position \in Positions(prior_mean) :
         call' = [fn |-> "prior", arg |-> position, ret |-> prior(position)]
    /\ UNCHANGED <<ydata_norm, exp_var, prior_mean, recVars, netVars, calVars>>

\* the caller takes the result; the globals stay as loaded
Return ==
    /\ call # NoCall
    /\ call' = NoCall
    /\ UNCHANGED <<ydata_norm, exp_var, prior_mean, recVars, netVars, calVars>>

NextNum == CallNormalize \/ CallLikelihood \/ CallPrior \/ Return

SpecNum == InitNum /\ [][NextNum]_vars

----------------------------------------------------------------------------
(* calibration_A431_highEGF.py: the script, statement by statement *)

\* opts.nsteps = 50000
nsteps == 50000
\* scenario = 1
scenario == 1
\* the period in step: mcmc.iter % 20
PrintPeriod == 20

AllPositionsFile == "calibration_allpositions_A431_highEGF.npy"
FittedParamsFile == "calibration_fittedparams_A431_highEGF.npy"

\* mutant of NextStatement: the two numpy.save calls moved before mcmc.run()
NextStatementSaveFirst(p) ==
    CASE p = "load_ydata_norm" -> "load_exp_var"
      [] p = "load_exp_var" -> "configure"
      [] p = "configure" -> "save_allpositions"
      [] p = "save_allpositions" -> "save_fittedparams"
      [] p = "save_fittedparams" -> "mcmc_run"
      [] p = "mcmc_run" -> "print_table"
      [] p = "print_table" -> "plot"
      [] p = "plot" -> "done"
      [] OTHER -> p

\* the statement that follows statement p in the module body
NextStatement(p) ==
    CASE p = "load_ydata_norm" -> "load_exp_var"       \* line 45 -> 47
      [] p = "load_exp_var" -> "configure"             \* line 47 -> 50..91
      [] p = "configure" -> "mcmc_run"                 \* line 91 -> 93
      [] p = "mcmc_run" -> "print_table"               \* line 93 -> 96..102
      [] p = "print_table" -> "plot"                   \* line 102 -> 105..125
      [] p = "plot" -> "save_allpositions"             \* line 125 -> 126
      [] p = "save_allpositions" -> "save_fittedparams" \* line 126 -> 127
      [] p = "save_fittedparams" -> "done"             \* end of the module
      [] OTHER -> p

\* mutant of StepPrints: the period counted from iteration 1
StepPrintsOffByOne(it) == (it + 1) % PrintPeriod = 0

\* def step(mcmc): whether a statistics line is printed at iteration it
StepPrints(it) == it % PrintPeriod = 0

\* def step(mcmc), on the record of printed lines: n lines so far, the last and
\* the one before it (-1: none), and whether the call at iteration `at` printed
step(it, pr) ==
    IF StepPrints(it)
    THEN [n |-> pr.n + 1, last |-> it, prev |-> pr.last, now |-> TRUE, at |-> it]
    ELSE [pr EXCEPT !.now = FALSE, !.at = it]

InitCal ==
    /\ pc = "load_ydata_norm"
    /\ iter = 0
    /\ printed = [n |-> 0, last |-> -1, prev |-> -1, now |-> FALSE, at |-> -1]
    /\ phases = <<>>
    /\ files = {}
    /\ GlobalsIdle
    /\ RecIdle /\ NetIdle /\ NumIdle

Advance ==
    /\ phases' = Append(phases, pc)
    /\ pc' = NextStatement(pc)

\* ydata_norm = numpy.load(data_filename): whatever array the file holds
LoadYdataNorm ==
    /\ pc = "load_ydata_norm"
    /\ ydata_norm' \in YDataSet
    /\ Advance
    /\ UNCHANGED <<iter, printed, files, exp_var, prior_mean, call, recVars, netVars>>

\* exp_var = numpy.load(var_data_filename): whatever array the file holds
LoadExpVar ==
    /\ pc = "load_exp_var"
    /\ exp_var' \in ExpVarSet
    /\ Advance
    /\ UNCHANGED <<iter, printed, files, ydata_norm, prior_mean, call, recVars, netVars>>

\* tspan, obs_names, opts = bayessb.MCMCOpts(), the scenario, prior_mean and
\* prior_var, the callbacks, mcmc = bayessb.MCMC(opts)
Configure ==
    /\ pc = "configure"
    /\ IF scenario \in {1, 2}
       THEN prior_mean' \in PriorMeanSet /\ Advance
       ELSE pc' = "RuntimeError" /\ UNCHANGED <<phases, prior_mean>>
    /\ UNCHANGED <<iter, printed, files, ydata_norm, exp_var, call, recVars, netVars>>

\* mcmc.run(): one iteration of the sampler (bayessb's; its acceptance state is
\* not modelled); it calls opts.step_fn and counts the iteration
McmcIterate ==
    /\ pc = "mcmc_run"
    /\ iter < nsteps
    /\ printed' = step(iter, printed)
    /\ iter' = iter + 1
    /\ UNCHANGED <<pc, phases, files, recVars, netVars, numVars>>

\* mcmc.run() returns after nsteps iterations
McmcReturn ==
    /\ pc = "mcmc_run"
    /\ iter >= nsteps
    /\ Advance
    /\ UNCHANGED <<iter, printed, files, recVars, netVars, numVars>>

\* the fitted-parameter table
PrintTable ==
    /\ pc = "print_table"
    /\ Advance
    /\ UNCHANGED <<iter, printed, files, recVars, netVars, numVars>>

\* plt.plot ... plt.show()
Plot ==
    /\ pc = "plot"
    /\ Advance
    /\ UNCHANGED <<iter, printed, files, recVars, netVars, numVars>>

\* numpy.save('calibration_allpositions_A431_highEGF.npy', ...)
SaveAllPositions ==
    /\ pc = "save_allpositions"
    /\ files' = files \cup {AllPositionsFile}
    /\ Advance
    /\ UNCHANGED <<iter, printed, recVars, netVars, numVars>>

\* numpy.save('calibration_fittedparams_A431_highEGF.npy', ...)
SaveFittedParams ==
    /\ pc = "save_fittedparams"
    /\ files' = files \cup {FittedParamsFile}
    /\ Advance
    /\ UNCHANGED <<iter, printed, recVars, netVars, numVars>>

NextCal ==
    \/ LoadYdataNorm \/ LoadExpVar \/ Configure
    \/ McmcIterate \/ McmcReturn
    \/ PrintTable \/ Plot
    \/ SaveAllPositions \/ SaveFittedParams

SpecCal == InitCal /\ [][NextCal]_vars

----------------------------------------------------------------------------
(* Counting in a population *)

RECURSIVE SumOver(_, _)
SumOver(S, f) ==
    IF S = {} THEN 0
    ELSE LET x == CHOOSE x \in S : TRUE IN f[x] + SumOver(S \ {x}, f)

\* erbb molecules in population B
RecCount(B) == SumOver(DOMAIN B, [c \in DOMAIN B |-> B[c] * Len(c)])

\* free (bd=None), unphosphorylated erbb2 monomers in population B
FreeU2Count(B) ==
    SumOver(DOMAIN B, [c \in DOMAIN B |->
        IF IsMonomer(c) /\ c[1].ty = 2 /\ c[1].st = "U" THEN B[c] ELSE 0])

\* erbb2:erbb2 dimers in population B
Dimer22Count(B) ==
    SumOver(DOMAIN B, [c \in DOMAIN B |->
        IF IsDimer(c) /\ c[1].ty = 2 /\ c[2].ty = 2 THEN B[c] ELSE 0])

HoldsAtp(c) == \E k \in DOMAIN c : c[k].b = "ATP"

----------------------------------------------------------------------------
(* Claims *)

\* C1: the script's phases happen in the fixed order load data, load deviations,
\* configure, run the sampler, print the table, plot, save all positions, save
\* fitted parameters, each at most once; the sampler runs exactly 50000
\* iterations; and no output file exists in a state where sampling has not
\* completed (nor before the table and the plot).
C1_PhasesInOrder ==
    LET order == <<"load_ydata_norm", "load_exp_var", "configure", "mcmc_run",
                   "print_table", "plot", "save_allpositions", "save_fittedparams">>
        ran == \E k \in DOMAIN phases : phases[k] = "mcmc_run"
    IN /\ Len(phases) <= Len(order)
       /\ \A k \in DOMAIN phases : phases[k] = order[k]
       /\ iter <= 50000
       /\ ran => iter = 50000
       /\ iter > 0 => Len(phases) >= 3
       /\ files # {} => ran /\ iter = 50000 /\ Len(phases) >= 7
       /\ files \subseteq {"calibration_allpositions_A431_highEGF.npy",
                           "calibration_fittedparams_A431_highEGF.npy"}
       /\ pc = "done" => phases = order /\ Cardinality(files) = 2

\* C1 witness: the script has finished, after 50000 iterations, with both files written
C1_Witness ==
    /\ pc = "done"
    /\ iter = 50000
    /\ files = {AllPositionsFile, FittedParamsFile}

\* C2: step prints a line at iteration i iff i is a multiple of 20 (0 included);
\* after N iterations 0..N-1 exactly ceil(N/20) lines were printed, and
\* consecutive printed iterations differ by exactly 20.
C2_PrintsEvery20 ==
    /\ printed.at = iter - 1
    /\ printed.at >= 0 => (printed.now <=> printed.at % 20 = 0)
    /\ printed.n = (iter + 19) \div 20
    /\ printed.n >= 1 => printed.last = 20 * (printed.n - 1)
    /\ printed.n = 1 => printed.last = 0 /\ printed.prev = -1
    /\ printed.prev >= 0 => printed.last - printed.prev = 20

\* C2 witness: the whole run is over; 2500 lines were printed, the last at 49980
C2_Witness ==
    /\ iter = 50000
    /\ printed.n = 2500
    /\ printed.last = 49980 /\ printed.prev = 49960
    /\ printed.at = 49999 /\ ~printed.now

\* C3 (as claimed): prior returns 0 at every position whose coordinates are all
\* within 6 of prior_mean.
C3_PriorZeroWithin6 ==
    (/\ call.fn = "prior"
     /\ \A k \in DOMAIN call.arg :
          /\ RLe(RSub(call.arg[k], prior_mean[k]), FromInt(6))
          /\ RLe(FromInt(-6), RSub(call.arg[k], prior_mean[k])))
    => call.ret = Zero

\* C4 (as claimed): every entry of normalize's result is a number in [0, 1], and
\* every column has smallest entry 0 and largest entry 1, constant columns included.
C4_NormalizeUnitRange ==
    call.fn = "normalize" =>
        /\ \A t \in DOMAIN call.ret : \A o \in DOMAIN call.ret[t] :
             /\ IsFinite(call.ret[t][o])
             /\ RLe(Zero, call.ret[t][o])
             /\ RLe(call.ret[t][o], One)
        /\ \A o \in DOMAIN obs_names :
             /\ \E t \in DOMAIN call.ret : call.ret[t][o] = Zero
             /\ \E t \in DOMAIN call.ret : call.ret[t][o] = One

\* C5 (as claimed): with every exp_var entry non-zero, likelihood is the sum of
\* (ydata_norm - ysim_norm)^2 / (2 exp_var^2), a non-negative number that is 0
\* exactly when the normalized simulation equals the data everywhere.
C5_LikelihoodGaussian ==
    (/\ call.fn = "likelihood"
     /\ \A t \in DOMAIN exp_var : \A o \in DOMAIN exp_var[t] : exp_var[t][o] # Zero)
    => LET ysim_norm == normalize(extract_records(call.arg, obs_names))
       IN /\ IsFinite(call.ret)
          /\ RLe(Zero, call.ret)
          /\ call.ret = Zero <=> ysim_norm = ydata_norm

\* C6 (as claimed): once the rules are fully expanded from the seed species, for
\* every kinase type i in {1,2,4} and partner type j in {1,2,3,4} some species
\* matches the reactants of cross_phospho_i_j.
C6_EveryCrossPhosphoReachable ==
    ExpansionDone =>
        \A i \in {1, 2, 4} : \A j \in {1, 2, 3, 4} :
            \E s \in generated : CrossPhosphoEnabled(s, i, j)

\* C7 (as claimed): no step takes two free unphosphorylated erbb2 monomers to an
\* erbb2:erbb2 dimer.
C7_NoDirectErbb2Homodimer ==
    [][~(/\ Dimer22Count(cx') = Dimer22Count(cx) + 1
         /\ FreeU2Count(cx') = FreeU2Count(cx) - 2)]_vars

\* C8: every erbb whose site b holds ATP is in a dimer (its bd is bound), and a
\* dimer holding ATP on either receptor does not match the dissociation rule.
C8_AtpOnlyOnDimers ==
    \A c \in DOMAIN cx :
        HoldsAtp(c) => IsDimer(c) /\ DissociateProducts(c) = {}

\* C8 witness: ATP is bound to a receptor of a dimer that has been phosphorylated
\* and internalized, next to a free monomer
C8_Witness ==
    /\ \E c \in DOMAIN cx :
         /\ IsDimer(c)
         /\ \E k \in DOMAIN c : c[k].b = "ATP" /\ c[k].st = "P" /\ c[k].loc = "E"
    /\ \E c \in DOMAIN cx : IsMonomer(c)

\* C9: the two receptors of a dimer always have the same loc, every erbb with a
\* free bd has loc='C', and a step that removes receptors removes exactly one
\* dimer whose two receptors both have loc='E'.
C9_DimersMoveAsAWhole ==
    /\ [](\A c \in DOMAIN cx :
            /\ IsDimer(c) => c[1].loc = c[2].loc
            /\ IsMonomer(c) => c[1].loc = "C")
    /\ [][RecCount(cx') # RecCount(cx) =>
            \E c \in DOMAIN cx :
                /\ Len(c) = 2 /\ c[1].loc = "E" /\ c[2].loc = "E"
                /\ cx' = BagDel(cx, c)]_vars

\* C9 witness: an internalized dimer has been degraded and a monomer is left
C9_Witness ==
    /\ RecCount(cx) = NRec - 2
    /\ \E c \in DOMAIN cx : IsMonomer(c)

----------------------------------------------------------------------------
(* What the code does where a claim fails *)

\* the (kinase, partner) pairs whose cross_phospho rule has a matching species
CrossPhosphoPairs ==
    { p \in KinaseTypes \X PartnerTypes :
        \E s \in generated : CrossPhosphoEnabled(s, p[1], p[2]) }

\* C6, the code: erbb2 has no ligand row, so bl=ANY never holds of a type-2 kinase,
\* and no 4:3 or 4:4 dimer forms; six of the twelve rules can ever fire.
CodeCrossPhosphoPairs ==
    ExpansionDone =>
        CrossPhosphoPairs = {<<1, 1>>, <<1, 2>>, <<1, 3>>, <<1, 4>>, <<4, 1>>, <<4, 2>>}

\* C6, the code, in the population: no erbb2 ever holds a ligand
CodeErbb2NeverLiganded ==
    \A c \in DOMAIN cx : \A k \in DOMAIN c : c[k].ty = 2 => c[k].bl = "None"

ConstantColumn(m, o) == \A t \in DOMAIN m : m[t][o] = m[1][o]

\* C4, the code: a column with two different values is rescaled to [0, 1] with
\* minimum 0 and maximum 1; a constant column becomes NaN throughout.
CodeNormalize ==
    call.fn = "normalize" =>
        \A o \in DOMAIN obs_names :
            IF ConstantColumn(call.arg, o)
            THEN \A t \in DOMAIN call.ret : IsNaN(call.ret[t][o])
            ELSE /\ \A t \in DOMAIN call.ret :
                      /\ IsFinite(call.ret[t][o])
                      /\ RLe(Zero, call.ret[t][o]) /\ RLe(call.ret[t][o], One)
                 /\ \E t \in DOMAIN call.ret : call.ret[t][o] = Zero
                 /\ \E t \in DOMAIN call.ret : call.ret[t][o] = One

\* C5, the code: likelihood is NaN exactly when some simulated observable is
\* constant over time, and otherwise as claimed.
CodeLikelihood ==
    call.fn = "likelihood" =>
        LET ysim_array == extract_records(call.arg, obs_names)
        IN IF \E o \in DOMAIN obs_names : ConstantColumn(ysim_array, o)
           THEN IsNaN(call.ret)
           ELSE /\ IsFinite(call.ret) /\ RLe(Zero, call.ret)
                /\ call.ret = Zero <=> normalize(ysim_array) = ydata_norm

\* C5, the code: ydata_norm, exp_var and prior_mean, once loaded, stay as they
\* are through every iteration and to the end of the script
CodeDataFixedDuringRun ==
    [][(pc \in {"mcmc_run", "print_table", "plot", "save_allpositions", "save_fittedparams"})
        => (ydata_norm' = ydata_norm /\ exp_var' = exp_var /\ prior_mean' = prior_mean)]_vars

\* C3, the code: prior is the sum of d^2 / 12 over the coordinates, 0 only at prior_mean
CodePrior ==
    call.fn = "prior" =>
        /\ call.ret = SumSeq([k \in DOMAIN call.arg |->
                        LET dl == RSub(call.arg[k], prior_mean[k]).n
                        IN Rat(dl * dl, 12)])
        /\ call.ret = Zero <=> call.arg = prior_mean

====
